---- MODULE Spec2Model ----
(***************************************************************************)
(* The room synchronization core of the watch-party server                 *)
(* (src/unnamed/part_001, lines 18-19 and 89-214): the registry roomState, *)
(* the per-connection handlers registered in io.on('connection') and the   *)
(* room membership the handlers read through socket.rooms and              *)
(* io.sockets.adapter.rooms.                                               *)
(*                                                                         *)
(* One action handles one inbound event completely (the handlers are       *)
(* synchronous and run on one event loop).  The events a handler emits are *)
(* recorded, in order and with their set of recipients, in the variable    *)
(* out; the event handled, the handler's last console line, the room that  *)
(* line names and the room the socket was taken out of are in last.        *)
(***************************************************************************)
EXTENDS Integers, Sequences, FiniteSets, TLC

\* ------------------------------------------------------------------ bounds
NumConns == 2          \* connections ever opened (socket ids 1..NumConns)

\* Socket ids.  An id is handed out once and never reused.
Conns == 1..NumConns
\* Room names sent with join.  The numbers stand for ordinary names: none is a
\* socket id (the transport keeps a private room named socket.id for each
\* socket) and none is a property every JavaScript object inherits.
Rooms == {101, 102}
\* Playback positions, in seconds, sent with play, pause and seek.
Times == {0, 12}
\* Video references sent with set-video.
Videos == {"a.mp4"}
Messages == {"hi"}

\* JavaScript's null (roomState[room].videoSrc) and undefined (getRoom()).
Null == "null"
Undefined == 0

VARIABLES
    nextId,      \* the next socket id the transport hands out
    connected,   \* ids of the sockets whose channel is open
    adapter,     \* the transport's membership: sids[id] = socket.rooms in
                 \* insertion order, rooms[room] = ids in insertion order
    roomState,   \* the registry: room name -> {videoSrc, playing, currentTime, host}
    last,        \* the event handled by the last step
    out,         \* the events emitted by the last step, in order
    http,        \* the last request to POST /upload and the response to it
    wire,        \* per socket, the events emitted to it and not yet delivered
    seen,        \* per socket, the number of the last command whose
                 \* notification was delivered to it
    accepted,    \* the number of guarded commands accepted so far
    client,      \* the state of one browser client (App.jsx)
    emitted,     \* the events that client sent to the server in the last step
    views,       \* per socket, the state of the App component that owns it
    up           \* per socket, the events its client sent and the server has
                 \* not handled yet

serverVars == <<nextId, connected, adapter, roomState, last, out>>
uploadVars == <<http>>
netVars == <<wire, seen, accepted>>
clientVars == <<client, emitted>>
viewVars == <<views, up>>
vars == <<nextId, connected, adapter, roomState, last, out, http,
          wire, seen, accepted, client, emitted, views, up>>

\* ----------------------------------------------------------------- helpers
SeqRemove(s, x) == SelectSeq(s, LAMBDA y : y # x)
SeqAdd(s, x) == IF \E i \in 1..Len(s) : s[i] = x THEN s ELSE Append(s, x)
Range(s) == {s[i] : i \in 1..Len(s)}

\* socket.join(room): Set.add on both maps of the adapter.
AdapterAdd(ad, id, room) ==
    [sids |-> [ad.sids EXCEPT ![id] = SeqAdd(@, room)],
     rooms |-> [ad.rooms EXCEPT ![room] = SeqAdd(@, id)]]

\* socket.leave(room).
AdapterDel(ad, id, room) ==
    [sids |-> [ad.sids EXCEPT ![id] = SeqRemove(@, room)],
     rooms |-> [ad.rooms EXCEPT ![room] = SeqRemove(@, id)]]

\* Mutant of AdapterDelAll: the rooms keep the id of the closed socket.
AdapterDelAllKeepsRooms(ad, id) ==
    [sids |-> [ad.sids EXCEPT ![id] = <<>>], rooms |-> ad.rooms]

\* The transport's cleanup of a closing socket (leaveAll): the socket leaves
\* every room, its own included.
AdapterDelAll(ad, id) ==
    [sids |-> [ad.sids EXCEPT ![id] = <<>>],
     rooms |-> [r \in Rooms |-> SeqRemove(ad.rooms[r], id)]]

\* Mutant of getRoomIn: a socket in no room is taken to be in a default room.
getRoomInDefault(ad, id) ==
    IF Len(ad.sids[id]) >= 2 THEN ad.sids[id][2] ELSE 101

\* getRoom: Array.from(socket.rooms)[1]; index 0 is the socket's own room.
getRoomIn(ad, id) ==
    IF Len(ad.sids[id]) >= 2 THEN ad.sids[id][2] ELSE Undefined

\* Mutant of getRoom: a room the socket is recorded as host of is preferred to
\* the room it is in.
getRoomHosted(id) ==
    IF \E r \in DOMAIN roomState : roomState[r].host = id
    THEN CHOOSE r \in DOMAIN roomState : roomState[r].host = id
    ELSE getRoomIn(adapter, id)

getRoom(id) == getRoomIn(adapter, id)

\* Mutant of ToRoom: io.emit, every open socket receives the event.
ToRoomEveryone(ad, room) == {id \in Conns : Len(ad.sids[id]) >= 1}

\* The recipients of io.to(room).
ToRoom(ad, room) == Range(ad.rooms[room])

\* Mutant of BroadcastTo: socket.broadcast.emit, every other open socket
\* receives the event, whatever room it is in.
BroadcastToEveryRoom(ad, id, room) ==
    {c \in Conns : Len(ad.sids[c]) >= 1} \ {id}

\* Mutant of BroadcastTo: the sender is not excluded.
BroadcastToAll(ad, id, room) == Range(ad.rooms[room])

\* The recipients of socket.broadcast.to(room).
BroadcastTo(ad, id, room) == Range(ad.rooms[room]) \ {id}

Emit(ev, data, to) == [ev |-> ev, data |-> data, to |-> to]

\* room is the room the console line names, if any; left is the room the
\* transport took the socket out of while the event was handled, if any; was
\* is the host that become-host replaced, if any.
EventWas(op, id, room, left, was, log) ==
    [op |-> op, id |-> id, room |-> room, left |-> left, was |-> was, log |-> log]

EventLeft(op, id, room, left, log) == EventWas(op, id, room, left, Undefined, log)

Event(op, id, room, log) == EventLeft(op, id, room, Undefined, log)

\* The file part of a request; present is FALSE when the request has none.
NoFile == [present |-> FALSE, mimetype |-> <<>>, originalname |-> <<>>]

\* A response: the status, the text sent (res.send, or the error handler's
\* page) and the videoPath of the JSON body, empty when there is none; saved
\* is the name of the file written under videos/, empty when none is.
Response(file, status, text, videoPath, saved) ==
    [file |-> file, status |-> status, text |-> text,
     videoPath |-> videoPath, saved |-> saved]

\* The state of the App component at its first render (useState, useRef).
\* myId and hostId are null until the connect and room-state events; time is
\* the position of the player, uploads the number of uploads awaited, and
\* seekTimers the positions the pending room-state timers will seek to.
App ==
    [myId |-> Undefined, hostId |-> Undefined, joined |-> FALSE,
     videoSrc |-> Null, videoFile |-> FALSE, playing |-> FALSE,
     ignoreEvents |-> FALSE, time |-> 0, uploads |-> 0, seekTimers |-> {}]

\* ------------------------------------------------------------------- Init
Init ==
    /\ nextId = 1
    /\ connected = {}
    /\ adapter = [sids |-> [c \in Conns |-> <<>>], rooms |-> [r \in Rooms |-> <<>>]]
    /\ roomState = [r \in {} |-> Null]
    /\ last = Event("listen", Undefined, Undefined, "")
    /\ out = <<>>
    /\ http = Response(NoFile, Undefined, "", <<>>, <<>>)
    /\ wire = [c \in Conns |-> <<>>]
    /\ seen = [c \in Conns |-> 0]
    /\ accepted = 0
    /\ client = App
    /\ emitted = <<>>
    /\ views = [c \in Conns |-> App]
    /\ up = [c \in Conns |-> <<>>]

\* io.on('connection'): the transport opens a socket with a fresh id, already
\* in its own room.
Connection ==
    /\ nextId <= NumConns
    /\ nextId' = nextId + 1
    /\ connected' = connected \cup {nextId}
    /\ adapter' = [adapter EXCEPT !.sids[nextId] = <<nextId>>]
    /\ last' = Event("connection", nextId, Undefined, "User connected")
    /\ out' = <<>>
    /\ UNCHANGED roomState

\* ------------------------------------------------------------------- join
\* Mutant of NewRoom: the room is created with no host.
NewRoomNoHost(id) ==
    [videoSrc |-> Null, playing |-> FALSE, currentTime |-> 0, host |-> Undefined]

\* The room object the join handler creates.
NewRoom(id) ==
    [videoSrc |-> Null, playing |-> FALSE, currentTime |-> 0, host |-> id]

\* Mutant of JoinRegistry: the handler also deletes the entry of the room the
\* socket has left.
JoinRegistryDropsOld(rs, id, currentRoom, room) ==
    LET kept == IF currentRoom # room THEN DOMAIN rs \ {currentRoom} ELSE DOMAIN rs
    IN  [r \in kept \cup {room} |-> IF r \in kept THEN rs[r] ELSE NewRoom(id)]

\* Mutant of JoinRegistry: no entry is created.
JoinRegistryNeverCreates(rs, id, currentRoom, room) == rs

\* Mutant of JoinRegistry: the entry is written on every join.
JoinRegistryAlwaysNew(rs, id, currentRoom, room) ==
    [r \in DOMAIN rs \cup {room} |-> IF r = room THEN NewRoom(id) ELSE rs[r]]

\* Mutant of JoinRegistry: a socket that leaves and joins the same room finds
\* it created afresh.
JoinRegistryRejoinResets(rs, id, currentRoom, room) ==
    IF room \notin DOMAIN rs \/ currentRoom = room
    THEN [r \in DOMAIN rs \cup {room} |-> IF r = room THEN NewRoom(id) ELSE rs[r]]
    ELSE rs

\* The registry after the join handler: an entry for room is created when there
\* is none; nothing is done about currentRoom, the room the socket has left.
JoinRegistry(rs, id, currentRoom, room) ==
    IF room \notin DOMAIN rs
    THEN [r \in DOMAIN rs \cup {room} |-> IF r = room THEN NewRoom(id) ELSE rs[r]]
    ELSE rs

\* Mutant of JoinAdapter: the socket joins without leaving its current room.
JoinAdapterNoLeave(ad, id, currentRoom, room) == AdapterAdd(ad, id, room)

\* The membership after the join handler: leave currentRoom, if any, then join.
JoinAdapter(ad, id, currentRoom, room) ==
    AdapterAdd(IF currentRoom # Undefined THEN AdapterDel(ad, id, currentRoom) ELSE ad,
               id, room)

\* Mutant of JoinNewHost: the broadcast names the joiner.
JoinNewHostSelf(rs, id, room) == id

\* The payload of the new-host broadcast of the join handler.
JoinNewHost(rs, id, room) == rs[room].host

Join(c, room) ==
    /\ c \in connected
    /\ LET currentRoom == getRoom(c)
           ad == JoinAdapter(adapter, c, currentRoom, room)
           rs == JoinRegistry(roomState, c, currentRoom, room)
       IN  /\ adapter' = ad
           /\ roomState' = rs
           /\ IF room \in DOMAIN rs
              THEN /\ out' = <<Emit("room-state", rs[room], {c}),
                               Emit("new-host", JoinNewHost(rs, c, room), ToRoom(ad, room))>>
                   /\ last' = EventLeft("join", c, room, currentRoom,
                                    IF room \notin DOMAIN roomState
                                    THEN "Creating new room"
                                    ELSE "Joining existing room")
              \* roomState[room] is undefined: reading .host throws after the
              \* room-state emit.
              ELSE /\ out' = <<Emit("room-state", Undefined, {c})>>
                   /\ last' = EventLeft("join", c, room, currentRoom, "TypeError")
    /\ UNCHANGED <<nextId, connected>>

\* ------------------------------------------------------------ become-host
\* Mutant of BecomeHostAllowed: the host can be taken over only when the
\* recorded host is no longer in the room.
BecomeHostIfVacant(ad, rs, room, id) ==
    /\ room # Undefined
    /\ room \in DOMAIN rs
    /\ rs[room].host \notin Range(ad.rooms[room])

\* The guard of become-host: the socket is in a room and the room has an entry.
BecomeHostAllowed(ad, rs, room, id) ==
    /\ room # Undefined
    /\ room \in DOMAIN rs

\* Mutant of BecomeHostState: taking the host role resets the room, as the
\* failover branch of the disconnect handler does.
BecomeHostStateResets(r, id) ==
    [r EXCEPT !.host = id, !.videoSrc = Null, !.playing = FALSE, !.currentTime = 0]

\* The room after an accepted become-host.
BecomeHostState(r, id) == [r EXCEPT !.host = id]

BecomeHost(c) ==
    /\ c \in connected
    /\ LET room == getRoom(c) IN
       IF ~BecomeHostAllowed(adapter, roomState, room, c)
       THEN /\ roomState' = roomState
            /\ out' = <<>>
            /\ last' = Event("become-host", c, Undefined, "")
       ELSE /\ roomState' = [roomState EXCEPT ![room] = BecomeHostState(@, c)]
            /\ out' = <<Emit("new-host", c, ToRoom(adapter, room))>>
            /\ last' = EventWas("become-host", c, Undefined, Undefined,
                                roomState[room].host, "")
    /\ UNCHANGED <<nextId, connected, adapter>>

\* ------------------------------------------------------- guarded commands
\* Mutant of HostGuard: a connection recorded as host of any room passes.
HostGuardHostAnywhere(rs, room, id) ==
    /\ room # Undefined
    /\ room \in DOMAIN rs
    /\ \E r \in DOMAIN rs : rs[r].host = id

\* Mutant of HostGuard: the comparison with the host is missing.
HostGuardAnyMember(rs, room, id) ==
    /\ room # Undefined
    /\ room \in DOMAIN rs

\* The guard of set-video, play, pause and seek: the handler goes on only when
\* the socket is in a room, the room has an entry and the socket is its host.
HostGuard(rs, room, id) ==
    /\ room # Undefined
    /\ room \in DOMAIN rs
    /\ rs[room].host = id

\* Mutant of SetVideoState: the position is not reset.
SetVideoStateKeepsTime(r, videoSrc) ==
    [r EXCEPT !.videoSrc = videoSrc, !.playing = FALSE]

\* The room after an accepted set-video.
SetVideoState(r, videoSrc) ==
    [r EXCEPT !.videoSrc = videoSrc, !.playing = FALSE, !.currentTime = 0]

\* Mutant of PlayState: play toggles playing.
PlayStateToggles(r, currentTime) ==
    [r EXCEPT !.playing = ~@, !.currentTime = currentTime]

\* The room after an accepted play.
PlayState(r, currentTime) ==
    [r EXCEPT !.playing = TRUE, !.currentTime = currentTime]

\* Mutant of PauseState: the position is not stored.
PauseStateKeepsTime(r, currentTime) == [r EXCEPT !.playing = FALSE]

\* The room after an accepted pause.
PauseState(r, currentTime) ==
    [r EXCEPT !.playing = FALSE, !.currentTime = currentTime]

\* Mutant of SeekState: a seek also pauses.
SeekStatePauses(r, currentTime) ==
    [r EXCEPT !.playing = FALSE, !.currentTime = currentTime]

\* The room after an accepted seek.
SeekState(r, currentTime) == [r EXCEPT !.currentTime = currentTime]

SetVideo(c, videoSrc) ==
    /\ c \in connected
    /\ LET room == getRoom(c) IN
       IF ~HostGuard(roomState, room, c)
       THEN /\ roomState' = roomState
            /\ out' = <<>>
            /\ last' = Event("set-video", c, Undefined, "")
       ELSE /\ roomState' = [roomState EXCEPT ![room] = SetVideoState(@, videoSrc)]
            /\ out' = <<Emit("video-set", videoSrc, ToRoom(adapter, room))>>
            /\ last' = Event("set-video", c, room, "Host set video")
    /\ UNCHANGED <<nextId, connected, adapter>>

Play(c, currentTime) ==
    /\ c \in connected
    /\ LET room == getRoom(c) IN
       IF ~HostGuard(roomState, room, c)
       THEN /\ roomState' = roomState
            /\ out' = <<>>
            /\ last' = Event("play", c, Undefined, "")
       ELSE /\ roomState' = [roomState EXCEPT ![room] = PlayState(@, currentTime)]
            /\ out' = <<Emit("played", currentTime, BroadcastTo(adapter, c, room))>>
            /\ last' = Event("play", c, room, "Host PLAYED")
    /\ UNCHANGED <<nextId, connected, adapter>>

Pause(c, currentTime) ==
    /\ c \in connected
    /\ LET room == getRoom(c) IN
       IF ~HostGuard(roomState, room, c)
       THEN /\ roomState' = roomState
            /\ out' = <<>>
            /\ last' = Event("pause", c, Undefined, "")
       ELSE /\ roomState' = [roomState EXCEPT ![room] = PauseState(@, currentTime)]
            /\ out' = <<Emit("paused", currentTime, BroadcastTo(adapter, c, room))>>
            /\ last' = Event("pause", c, room, "Host PAUSED")
    /\ UNCHANGED <<nextId, connected, adapter>>

Seek(c, currentTime) ==
    /\ c \in connected
    /\ LET room == getRoom(c) IN
       IF ~HostGuard(roomState, room, c)
       THEN /\ roomState' = roomState
            /\ out' = <<>>
            /\ last' = Event("seek", c, Undefined, "")
       ELSE /\ roomState' = [roomState EXCEPT ![room] = SeekState(@, currentTime)]
            /\ out' = <<Emit("seeked", currentTime, BroadcastTo(adapter, c, room))>>
            /\ last' = Event("seek", c, room, "Host SEEKED")
    /\ UNCHANGED <<nextId, connected, adapter>>

\* ----------------------------------------------------------- chat-message
\* Mutant of ChatOut: the message goes to everyone else in the room.
ChatOutBroadcast(ad, id, room, message) ==
    IF room = Undefined
    THEN <<>>
    ELSE <<Emit("chat-message", [id |-> id, message |-> message],
                Range(ad.rooms[room]) \ {id})>>

\* The events the chat-message handler emits.
ChatOut(ad, id, room, message) ==
    IF room = Undefined
    THEN <<>>
    ELSE <<Emit("chat-message", [id |-> id, message |-> message], ToRoom(ad, room))>>

ChatMessage(c, message) ==
    /\ c \in connected
    /\ out' = ChatOut(adapter, c, getRoom(c), message)
    /\ last' = Event("chat-message", c, Undefined, "")
    /\ UNCHANGED <<nextId, connected, adapter, roomState>>

\* -------------------------------------------------------------- disconnect
\* The membership the 'disconnect' handler sees.  The transport closes a socket
\* in this order: emit 'disconnecting', leave every room (leaveAll), mark the
\* socket disconnected, emit 'disconnect'.  The handler is registered for
\* 'disconnect', so socket.rooms is already empty when it runs.
DisconnectAdapter(ad, id) == AdapterDelAll(ad, id)

Disconnect(c) ==
    /\ c \in connected
    /\ connected' = connected \ {c}
    /\ LET ad == DisconnectAdapter(adapter, c)
           room == getRoomIn(ad, c)
       IN  /\ adapter' = AdapterDelAll(adapter, c)
           \* the 'disconnect' handler
           /\ IF room = Undefined \/ room \notin DOMAIN roomState
              THEN /\ roomState' = roomState
                   /\ out' = <<>>
                   /\ last' = EventLeft("disconnect", c, Undefined, getRoom(c), "User disconnected")
              ELSE IF roomState[room].host = c
              THEN LET clients == ad.rooms[room] IN
                   IF Len(clients) > 0
                   THEN LET newHostId == clients[1] IN
                        /\ roomState' = [roomState EXCEPT ![room].host = newHostId,
                                                           ![room].videoSrc = Null,
                                                           ![room].playing = FALSE,
                                                           ![room].currentTime = 0]
                        /\ out' = <<Emit("new-host", newHostId, ToRoom(ad, room)),
                                    Emit("video-set", Null, ToRoom(ad, room))>>
                        /\ last' = EventLeft("disconnect", c, room, getRoom(c), "New host for room")
                   ELSE /\ roomState' = [r \in DOMAIN roomState \ {room} |-> roomState[r]]
                        /\ out' = <<>>
                        /\ last' = EventLeft("disconnect", c, room, getRoom(c), "Room is empty")
              ELSE /\ roomState' = roomState
                   /\ out' = <<>>
                   /\ last' = EventLeft("disconnect", c, Undefined, getRoom(c), "User disconnected")
    /\ UNCHANGED nextId

\* ----------------------------------------------------------- POST /upload
\* The strings the upload inspects are sequences of characters.
UpperCase ==
    <<"A", "B", "C", "D", "E", "F", "G", "H", "I", "J", "K", "L", "M",
      "N", "O", "P", "Q", "R", "S", "T", "U", "V", "W", "X", "Y", "Z">>
LowerCase ==
    <<"a", "b", "c", "d", "e", "f", "g", "h", "i", "j", "k", "l", "m",
      "n", "o", "p", "q", "r", "s", "t", "u", "v", "w", "x", "y", "z">>

\* String.prototype.toLowerCase.
toLowerCase(s) ==
    [i \in 1..Len(s) |->
        IF \E k \in 1..Len(UpperCase) : UpperCase[k] = s[i]
        THEN LowerCase[CHOOSE k \in 1..Len(UpperCase) : UpperCase[k] = s[i]]
        ELSE s[i]]

\* String.prototype.startsWith.
startsWith(s, prefix) ==
    Len(s) >= Len(prefix) /\ SubSeq(s, 1, Len(prefix)) = prefix

\* path.extname of a name without directory part: from the last dot to the
\* end; empty when there is no dot, when the last dot is the first character,
\* and for "..".
extname(name) ==
    LET dots == {i \in 1..Len(name) : name[i] = "."} IN
    IF dots = {} THEN <<>>
    ELSE LET d == CHOOSE i \in dots : \A j \in dots : j <= i IN
         IF d = 1 \/ name = <<".", ".">> THEN <<>> ELSE SubSeq(name, d, Len(name))

allowedExts ==
    {<<".", "m", "p", "4">>, <<".", "w", "e", "b", "m">>, <<".", "o", "g", "g">>,
     <<".", "w", "m", "v">>, <<".", "m", "k", "v">>}

\* Declared media types and original file names of the uploads tried.  A name
\* has no directory part (the multipart parser keeps the base name).
MimeTypes ==
    {<<"v", "i", "d", "e", "o", "/", "m", "p", "4">>, <<"v", "i", "d", "e", "o", "/", "x", "-", "m", "a", "t", "r", "o", "s", "k", "a">>,
     <<"v", "i", "d", "e", "o", "/">>, <<"a", "p", "p", "l", "i", "c", "a", "t", "i", "o", "n", "/", "o", "c", "t", "e", "t", "-", "s", "t", "r", "e", "a", "m">>,
     <<"t", "e", "x", "t", "/", "p", "l", "a", "i", "n">>, <<"i", "m", "a", "g", "e", "/", "p", "n", "g">>,
     <<"a", "u", "d", "i", "o", "/", "v", "i", "d", "e", "o">>, <<"V", "I", "D", "E", "O", "/", "M", "P", "4">>,
     <<>>}

FileNames ==
    {<<"a", ".", "m", "p", "4">>, <<"a", ".", "M", "P", "4">>, <<"a", ".", "w", "e", "b", "m">>,
     <<"a", ".", "o", "g", "g">>, <<"a", ".", "w", "m", "v">>, <<"a", ".", "m", "k", "v">>,
     <<"a", ".", "M", "k", "V">>, <<"a", ".", "a", "v", "i">>, <<"a", ".", "m", "o", "v">>,
     <<"a", ".", "t", "x", "t">>, <<"a">>, <<".", "m", "p", "4">>,
     <<"a", ".", "m", "p", "4", ".", "t", "x", "t">>, <<"a", ".", "t", "x", "t", ".", "m", "p", "4">>, <<"a", ".", "m", "p", "4", ".">>,
     <<"m", "p", "4">>, <<"a", ".", "m", "p", "3">>, <<".", ".">>}

Files == [present : {TRUE}, mimetype : MimeTypes, originalname : FileNames]

\* Date.now() + '-' + Math.round(Math.random() * 1e9)
UniqueSuffixes ==
    {<<"1", "7", "-", "5">>}

\* fileFilter: TRUE for cb(null, true), FALSE for cb(new Error(...), false).
fileFilter(file) ==
    LET isVideoMime == startsWith(file.mimetype, <<"v", "i", "d", "e", "o", "/">>)
        ext == toLowerCase(extname(file.originalname))
        isVideoExt == ext \in allowedExts
    IN  isVideoMime \/ isVideoExt

\* upload.single('video') followed by the route handler.  The filter's Error
\* goes to next(err): the route handler is skipped and the framework's error
\* handler answers with status 500, the error has no status of its own.  The
\* route handler answers 400 only when the request carries no file part.
Upload(file, uniqueSuffix) ==
    IF ~file.present
    THEN http' = Response(file, 400, "No file uploaded or invalid file type.",
                          <<>>, <<>>)
    ELSE IF fileFilter(file)
    THEN LET filename == uniqueSuffix \o <<"-">> \o file.originalname IN
         http' = Response(file, 200, "",
                          <<"/", "v", "i", "d", "e", "o", "s", "/">> \o filename,
                          filename)
    ELSE http' = Response(file, 500, "Error: Not an allowed video file type!",
                          <<>>, <<>>)

UploadNext ==
    \E file \in Files \cup {NoFile}, uniqueSuffix \in UniqueSuffixes :
        /\ Upload(file, uniqueSuffix)
        /\ UNCHANGED <<serverVars, netVars, clientVars, viewVars>>

SpecUpload == Init /\ [][UploadNext]_vars

\* ------------------------------------------------------------------- Next
\* What the handlers of the socket server leave alone.
others == <<uploadVars, netVars, clientVars, viewVars>>

Next ==
    \/ Connection /\ UNCHANGED others
    \/ \E c \in Conns, room \in Rooms : Join(c, room) /\ UNCHANGED others
    \/ \E c \in Conns : BecomeHost(c) /\ UNCHANGED others
    \/ \E c \in Conns, videoSrc \in Videos :
          SetVideo(c, videoSrc) /\ UNCHANGED others
    \/ \E c \in Conns, currentTime \in Times :
          Play(c, currentTime) /\ UNCHANGED others
    \/ \E c \in Conns, currentTime \in Times :
          Pause(c, currentTime) /\ UNCHANGED others
    \/ \E c \in Conns, currentTime \in Times :
          Seek(c, currentTime) /\ UNCHANGED others
    \/ \E c \in Conns, message \in Messages :
          ChatMessage(c, message) /\ UNCHANGED others
    \/ \E c \in Conns : Disconnect(c) /\ UNCHANGED others

Spec == Init /\ [][Next]_vars

\* ------------------------------------------------ delivery to the clients
\* Events queued for one socket, and guarded commands accepted in one run.
MaxInFlight == 2
MaxCommands == 2

GuardedOps == {"set-video", "play", "pause", "seek"}

\* The handler has accepted a guarded command: it logged the room.
Accepted(l) == l.op \in GuardedOps /\ l.room # Undefined

\* What the transport queues for socket c: the events of evs addressed to c,
\* in the order emitted.  n is the number of the command they notify (0 when
\* they notify none).
Queued(evs, c, n) ==
    LET mine == SelectSeq(evs, LAMBDA e : c \in e.to) IN
    [i \in 1..Len(mine) |-> [ev |-> mine[i].ev, data |-> mine[i].data, n |-> n]]

\* Mutant of Transmit: what is emitted while the socket has events queued is
\* lost.
TransmitIfIdle(w, evs, n, open) ==
    [c \in Conns |-> IF c \notin open THEN <<>>
                     ELSE IF w[c] = <<>> THEN Queued(evs, c, n) ELSE w[c]]

\* Mutant of Transmit: what is emitted overtakes what is queued.
TransmitInFront(w, evs, n, open) ==
    [c \in Conns |-> IF c \in open THEN Queued(evs, c, n) \o w[c] ELSE <<>>]

\* The queues after a handler has emitted evs; the queue of a closed socket is
\* dropped.
Transmit(w, evs, n, open) ==
    [c \in Conns |-> IF c \in open THEN w[c] \o Queued(evs, c, n) ELSE <<>>]

\* A handler of the server runs, and what it emits is queued.
Serve(Handler) ==
    /\ Handler
    /\ accepted' = IF Accepted(last') THEN accepted + 1 ELSE accepted
    /\ accepted' <= MaxCommands
    /\ wire' = Transmit(wire, out', IF Accepted(last') THEN accepted' ELSE 0,
                        connected')
    /\ \A c \in Conns : Len(wire'[c]) <= MaxInFlight
    /\ UNCHANGED <<seen, uploadVars, clientVars, viewVars>>

\* The transport delivers to socket c the oldest event queued for it.
Deliver(c) ==
    /\ c \in connected
    /\ wire[c] # <<>>
    /\ wire' = [wire EXCEPT ![c] = Tail(@)]
    /\ seen' = [seen EXCEPT ![c] = IF Head(wire[c]).n > 0 THEN Head(wire[c]).n ELSE @]
    /\ UNCHANGED <<serverVars, accepted, uploadVars, clientVars, viewVars>>

\* The delivery of events is followed for the connections of one room.
NetRooms == {101}

NetNext ==
    \/ Serve(Connection)
    \/ \E c \in Conns, room \in NetRooms : Serve(Join(c, room))
    \/ \E c \in Conns : Serve(BecomeHost(c))
    \/ \E c \in Conns, videoSrc \in Videos : Serve(SetVideo(c, videoSrc))
    \/ \E c \in Conns, currentTime \in Times : Serve(Play(c, currentTime))
    \/ \E c \in Conns, currentTime \in Times : Serve(Pause(c, currentTime))
    \/ \E c \in Conns, currentTime \in Times : Serve(Seek(c, currentTime))
    \/ \E c \in Conns, message \in Messages : Serve(ChatMessage(c, message))
    \/ \E c \in Conns : Serve(Disconnect(c))
    \/ \E c \in Conns : Deliver(c)

\* The transport delivers what is queued for an open socket.
SpecNet == Init /\ [][NetNext]_vars /\ \A c \in Conns : WF_vars(Deliver(c))

\* ------------------------------------------------------ the client, App.jsx
\* Uploads one client awaits at a time.
MaxUploads == 1

\* The snapshots a room-state event can carry.
RoomStates ==
    [videoSrc : {Null} \cup Videos, playing : BOOLEAN, currentTime : Times,
     host : Conns]

\* An event the client sends to the server: socket.emit(ev, data).
Sent(ev, data) == [ev |-> ev, data |-> data]

\* What a handler leaves: the component's state and the events it sent.
Done(cl, emit) == [cl |-> cl, emit |-> emit]

isHost(cl) == cl.myId # Undefined /\ cl.hostId # Undefined /\ cl.myId = cl.hostId

\* handleSeekFromSocket; the player exists once the client has joined.  The
\* timer it sets is pending exactly while ignoreEvents is true.
handleSeekFromSocket(cl, time) ==
    IF cl.ignoreEvents \/ ~cl.joined
    THEN cl
    ELSE [cl EXCEPT !.ignoreEvents = TRUE, !.time = time]

\* The listeners registered on the socket.
onConnect(cl, id) == Done([cl EXCEPT !.myId = id], <<>>)

onVideoSet(cl, src) == Done([cl EXCEPT !.videoSrc = src, !.playing = FALSE], <<>>)

onRoomState(cl, state) ==
    Done([cl EXCEPT !.videoSrc = state.videoSrc, !.playing = state.playing,
                    !.hostId = state.host,
                    !.seekTimers = @ \cup {state.currentTime}], <<>>)

\* Mutant of onNewHost: the host is taken from the first event that names one.
onNewHostIfUnset(cl, id) ==
    Done([cl EXCEPT !.hostId = IF @ = Undefined THEN id ELSE @], <<>>)

onNewHost(cl, id) == Done([cl EXCEPT !.hostId = id], <<>>)

onPlayed(cl, currentTime) ==
    Done(handleSeekFromSocket([cl EXCEPT !.playing = TRUE], currentTime), <<>>)

onPaused(cl, currentTime) ==
    Done(handleSeekFromSocket([cl EXCEPT !.playing = FALSE], currentTime), <<>>)

onSeeked(cl, time) == Done(handleSeekFromSocket(cl, time), <<>>)

\* The timer of the room-state listener fires.
roomStateTimer(cl, time) ==
    Done(handleSeekFromSocket([cl EXCEPT !.seekTimers = @ \ {time}], time), <<>>)

\* The timer of handleSeekFromSocket fires.
ignoreTimer(cl) == Done([cl EXCEPT !.ignoreEvents = FALSE], <<>>)

\* The handlers of the user's actions.
handleJoin(cl, room) ==
    Done([cl EXCEPT !.joined = TRUE], <<Sent("join", room)>>)

handleBecomeHost(cl) == Done(cl, <<Sent("become-host", Undefined)>>)

handleSetVideoUrl(cl, videoUrl) ==
    IF ~isHost(cl) THEN Done(cl, <<>>)
    ELSE Done(cl, <<Sent("set-video", videoUrl)>>)

\* handleSetVideoFile up to its await: the upload is started.
handleSetVideoFile(cl) ==
    IF ~isHost(cl) \/ ~cl.videoFile THEN Done(cl, <<>>)
    ELSE Done([cl EXCEPT !.uploads = @ + 1], <<>>)

\* handleSetVideoFile after its await: the upload has answered, with a
\* videoPath or with an error.
uploadAnswered(cl, videoPath) ==
    IF videoPath # Null
    THEN Done([cl EXCEPT !.uploads = @ - 1], <<Sent("set-video", videoPath)>>)
    ELSE Done([cl EXCEPT !.uploads = @ - 1], <<>>)

handlePlay(cl) ==
    IF ~isHost(cl) \/ cl.ignoreEvents \/ cl.playing THEN Done(cl, <<>>)
    ELSE Done([cl EXCEPT !.playing = TRUE], <<Sent("play", cl.time)>>)

handlePause(cl) ==
    IF ~isHost(cl) \/ cl.ignoreEvents \/ ~cl.playing THEN Done(cl, <<>>)
    ELSE Done([cl EXCEPT !.playing = FALSE], <<Sent("pause", cl.time)>>)

handleSeek(cl, time) ==
    IF ~isHost(cl) \/ cl.ignoreEvents THEN Done(cl, <<>>)
    ELSE Done(cl, <<Sent("seek", time)>>)

\* The player's seek controls: the player moves, then calls onSeek.
seek(cl, newTime) == handleSeek([cl EXCEPT !.time = newTime], newTime)

\* One step of the client: a listener, a timer or a handler runs.
Client(done) ==
    /\ client' = done.cl
    /\ emitted' = done.emit
    /\ UNCHANGED <<serverVars, uploadVars, netVars, viewVars>>

\* The server sends room events only to the members of a room, so they reach
\* the client after it has sent join.
ClientNext ==
    \/ \E id \in Conns : client.myId = Undefined /\ Client(onConnect(client, id))
    \/ \E src \in {Null} \cup Videos :
          client.joined /\ Client(onVideoSet(client, src))
    \/ \E state \in RoomStates :
          client.joined /\ Client(onRoomState(client, state))
    \/ \E id \in Conns : client.joined /\ Client(onNewHost(client, id))
    \/ \E t \in Times : client.joined /\ Client(onPlayed(client, t))
    \/ \E t \in Times : client.joined /\ Client(onPaused(client, t))
    \/ \E t \in Times : client.joined /\ Client(onSeeked(client, t))
    \/ \E t \in client.seekTimers : Client(roomStateTimer(client, t))
    \/ client.ignoreEvents /\ Client(ignoreTimer(client))
    \* the join form is shown until the client has joined
    \/ \E room \in Rooms : ~client.joined /\ Client(handleJoin(client, room))
    \* the controls are shown once it has; Become Host is disabled for the host
    \/ client.joined /\ ~isHost(client) /\ Client(handleBecomeHost(client))
    \/ \E v \in Videos : client.joined /\ Client(handleSetVideoUrl(client, v))
    \* the file input is disabled for a client that is not host
    \/ /\ client.joined /\ isHost(client)
       /\ Client(Done([client EXCEPT !.videoFile = TRUE], <<>>))
    \/ /\ client.joined /\ client.uploads < MaxUploads
       /\ Client(handleSetVideoFile(client))
    \/ \E videoPath \in {Null} \cup Videos :
          client.uploads > 0 /\ Client(uploadAnswered(client, videoPath))
    \/ client.joined /\ Client(handlePlay(client))
    \/ client.joined /\ Client(handlePause(client))
    \/ \E t \in Times : client.joined /\ Client(seek(client, t))

SpecClient == Init /\ [][ClientNext]_vars

\* ------------------------------------------- the clients and the server
\* Events a client has sent that the server has not handled yet.
MaxPending == 1

\* The listener the client has registered for a server event; chat-message
\* changes only the list of messages.
Listen(cl, e) ==
    CASE e.ev = "room-state" -> onRoomState(cl, e.data)
      [] e.ev = "new-host" -> onNewHost(cl, e.data)
      [] e.ev = "video-set" -> onVideoSet(cl, e.data)
      [] e.ev = "played" -> onPlayed(cl, e.data)
      [] e.ev = "paused" -> onPaused(cl, e.data)
      [] e.ev = "seeked" -> onSeeked(cl, e.data)
      [] OTHER -> Done(cl, <<>>)

\* The transport opens a socket for a client that has loaded the page.
Open ==
    /\ Connection
    /\ UNCHANGED <<uploadVars, netVars, clientVars, viewVars>>

\* The client's socket emits connect.
Connected(c) ==
    /\ c \in connected
    /\ views[c].myId = Undefined
    /\ views' = [views EXCEPT ![c] = onConnect(@, c).cl]
    /\ UNCHANGED <<serverVars, uploadVars, netVars, clientVars, up>>

\* The transport delivers to socket c the oldest event queued for it, and the
\* client's listener runs.
Hear(c) ==
    /\ c \in connected
    /\ wire[c] # <<>>
    /\ wire' = [wire EXCEPT ![c] = Tail(@)]
    /\ views' = [views EXCEPT ![c] = Listen(@, Head(wire[c])).cl]
    /\ UNCHANGED <<serverVars, seen, accepted, uploadVars, clientVars, up>>

\* A handler or a timer of the client of socket c runs; what it emits is on
\* its way to the server.
Act(c, done) ==
    /\ c \in connected
    /\ Len(up[c]) + Len(done.emit) <= MaxPending
    /\ views' = [views EXCEPT ![c] = done.cl]
    /\ up' = [up EXCEPT ![c] = @ \o done.emit]
    /\ UNCHANGED <<serverVars, uploadVars, netVars, clientVars>>

\* The server handles the oldest event socket c has sent; what the handler
\* emits is queued.
Receive(c) ==
    /\ c \in connected
    /\ up[c] # <<>>
    /\ LET m == Head(up[c]) IN
       \/ m.ev = "join" /\ Join(c, m.data)
       \/ m.ev = "become-host" /\ BecomeHost(c)
       \/ m.ev = "set-video" /\ SetVideo(c, m.data)
       \/ m.ev = "play" /\ Play(c, m.data)
       \/ m.ev = "pause" /\ Pause(c, m.data)
       \/ m.ev = "seek" /\ Seek(c, m.data)
    /\ up' = [up EXCEPT ![c] = Tail(@)]
    /\ wire' = Transmit(wire, out', 0, connected')
    /\ \A d \in Conns : Len(wire'[d]) <= MaxInFlight
    /\ UNCHANGED <<views, seen, accepted, uploadVars, clientVars>>

\* The page of socket c is closed: the component is unmounted, its cleanup
\* closes the socket and the server handles the disconnect.
Close(c) ==
    /\ Disconnect(c)
    /\ wire' = Transmit(wire, out', 0, connected')
    /\ up' = [up EXCEPT ![c] = <<>>]
    /\ views' = [views EXCEPT ![c] = App]
    /\ UNCHANGED <<seen, accepted, uploadVars, clientVars>>

\* The sockets, their channels and the timers and join forms of the clients.
Sessions ==
    \/ Open
    \/ \E c \in Conns : Connected(c)
    \/ \E c \in Conns : Hear(c)
    \/ \E c \in Conns : Receive(c)
    \/ \E c \in Conns, t \in Times :
          t \in views[c].seekTimers /\ Act(c, roomStateTimer(views[c], t))
    \/ \E c \in Conns : views[c].ignoreEvents /\ Act(c, ignoreTimer(views[c]))
    \* the join form is shown until the client has joined
    \/ \E c \in Conns, room \in NetRooms :
          ~views[c].joined /\ Act(c, handleJoin(views[c], room))

\* The controls are shown once the client has joined; Become Host is disabled
\* for the host.
Hosting ==
    \E c \in Conns :
        /\ views[c].joined /\ ~isHost(views[c])
        /\ Act(c, handleBecomeHost(views[c]))

\* Set URL is disabled for a client that is not host.
Selecting ==
    \E c \in Conns, v \in Videos :
        /\ views[c].joined /\ isHost(views[c])
        /\ Act(c, handleSetVideoUrl(views[c], v))

\* The player's controls answer the host only.
Playback ==
    \/ \E c \in Conns :
          /\ views[c].joined /\ isHost(views[c])
          /\ Act(c, handlePlay(views[c]))
    \/ \E c \in Conns :
          /\ views[c].joined /\ isHost(views[c])
          /\ Act(c, handlePause(views[c]))

\* The seek controls move the player once a video is loaded.
Seeking ==
    \E c \in Conns, t \in Times :
        /\ views[c].joined /\ isHost(views[c]) /\ views[c].videoSrc # Null
        /\ Act(c, seek(views[c], t))

\* Clients that join, take the host role, set the video and leave.
ViewNext ==
    \/ Sessions
    \/ Hosting
    \/ Selecting
    \/ \E c \in Conns : Close(c)

SpecViews == Init /\ [][ViewNext]_vars

\* Clients that join, take the host role and play and pause.
RaceNext ==
    \/ Sessions
    \/ Hosting
    \/ Playback

SpecRace == Init /\ [][RaceNext]_vars

\* Clients that join and follow a host that sets the video, plays, pauses
\* and seeks.
FollowNext ==
    \/ Sessions
    \/ Selecting
    \/ Playback
    \/ Seeking

SpecFollow == Init /\ [][FollowNext]_vars

\* ------------------------------------------------------------------ claims
\* The rooms whose membership holds connection c.
RoomsOf(ad, c) == {r \in Rooms : c \in Range(ad.rooms[r])}

\* The step handles the disconnect of the host of a room that has at least one
\* other member.
HostLeft ==
    /\ last'.op = "disconnect"
    /\ getRoom(last'.id) \in DOMAIN roomState
    /\ roomState[getRoom(last'.id)].host = last'.id
    /\ ToRoom(adapter, getRoom(last'.id)) \ {last'.id} # {}

\* C1: for every room in the registry, the room's host is a connection that is
\* currently a member of that room.
C1_HostIsMember ==
    \A r \in DOMAIN roomState : roomState[r].host \in ToRoom(adapter, r)

\* C2: set-video, play, pause or seek from a member of room R that is not R's
\* host leaves the registry unchanged and emits nothing.
C2_HostExclusivity ==
    [][( /\ last'.op \in GuardedOps
         /\ getRoom(last'.id) \in DOMAIN roomState
         /\ roomState[getRoom(last'.id)].host # last'.id )
       => (roomState' = roomState /\ out' = <<>>)]_vars

\* A non-host member of a room whose state the host has set has just sent a
\* guarded command, and nothing was emitted.
C2_Witness ==
    /\ last.op \in GuardedOps
    /\ getRoom(last.id) \in DOMAIN roomState
    /\ roomState[getRoom(last.id)].host # last.id
    /\ roomState[getRoom(last.id)].host \in ToRoom(adapter, getRoom(last.id))
    /\ roomState[getRoom(last.id)].videoSrc = "a.mp4"
    /\ out = <<>>

\* C3: every room in the registry has at least one member.
C3_RoomHasMember ==
    \A r \in DOMAIN roomState : ToRoom(adapter, r) # {}

\* C4: the current room of every connection has an entry in the registry.
C4_MemberRoomExists ==
    \A c \in connected : getRoom(c) # Undefined => getRoom(c) \in DOMAIN roomState

\* A connection is still in a room whose recorded host has closed its channel:
\* the entry is kept.
C4_Witness ==
    \E c \in connected :
        /\ getRoom(c) \in DOMAIN roomState
        /\ roomState[getRoom(c)].host \in (1..(nextId - 1)) \ connected

\* C5: when the host of room R disconnects and R has another member, R's host
\* becomes a remaining member of R other than the old host, and R's state is
\* reset to no video, paused, position 0.
C5_HostFailover ==
    [][HostLeft =>
         LET R == getRoom(last'.id) IN
         /\ R \in DOMAIN roomState'
         /\ roomState'[R].host \in ToRoom(adapter', R)
         /\ roomState'[R].host # last'.id
         /\ roomState'[R].videoSrc = Null
         /\ roomState'[R].playing = FALSE
         /\ roomState'[R].currentTime = 0]_vars

\* C6: when the host of room R disconnects leaving members, exactly new-host
\* (naming R's new host) and then video-set(null) go to the remaining members
\* of R, and to nobody else.
C6_FailoverNotification ==
    [][HostLeft =>
         LET R == getRoom(last'.id)
             remaining == ToRoom(adapter, R) \ {last'.id}
         IN  /\ R \in DOMAIN roomState'
             /\ out' = <<Emit("new-host", roomState'[R].host, remaining),
                         Emit("video-set", Null, remaining)>>]_vars

\* C7: after the only member of room R disconnects, R is absent from the
\* registry, and a join of a room without members creates it afresh, with the
\* joiner as host.
C7_EmptyRoomTeardown ==
    [][ /\ ( /\ last'.op = "disconnect"
             /\ getRoom(last'.id) # Undefined
             /\ ToRoom(adapter, getRoom(last'.id)) = {last'.id} )
           => getRoom(last'.id) \notin DOMAIN roomState'
        /\ (last'.op = "join" /\ ToRoom(adapter, last'.room) = {})
           => roomState'[last'.room] = [videoSrc |-> Null, playing |-> FALSE,
                                        currentTime |-> 0, host |-> last'.id] ]_vars

\* C8: after a join, the host in the room-state snapshot sent to the joiner,
\* the id in the new-host broadcast and the host of the joined room are equal.
C8_SnapshotConsistency ==
    last.op = "join" =>
        /\ Len(out) = 2
        /\ out[1].ev = "room-state"
        /\ out[1].to = {last.id}
        /\ out[2].ev = "new-host"
        /\ out[1].data.host = out[2].data
        /\ out[2].data = roomState[last.room].host

\* A connection has just joined a room that another connection hosts.
C8_Witness ==
    /\ last.op = "join"
    /\ last.log = "Joining existing room"
    /\ Len(out) = 2
    /\ out[2].data # last.id
    /\ out[2].data \in ToRoom(adapter, getRoom(last.id))

\* C9: a connection is a member of at most one room, and after join(C, R2) it
\* is a member of R2 and of no other room.
C9_AtMostOneRoom ==
    /\ \A c \in Conns : Cardinality(RoomsOf(adapter, c)) <= 1
    /\ last.op = "join" => /\ getRoom(last.id) = last.room
                           /\ RoomsOf(adapter, last.id) = {last.room}

\* A connection that created one room has just joined another room.
C9_Witness ==
    /\ last.op = "join"
    /\ \E R1 \in DOMAIN roomState :
          /\ roomState[R1].host = last.id
          /\ getRoom(last.id) # R1
          /\ RoomsOf(adapter, last.id) = {getRoom(last.id)}

\* C10: join(C, R) on a room name without registry entry creates the entry
\* {videoSrc: null, playing: false, currentTime: 0, host: C}, and the snapshot
\* sent to C carries those values.
C10_JoinCreatesDefaults ==
    [][(last'.op = "join" /\ last'.room \notin DOMAIN roomState) =>
         LET R == last'.room
             fresh == [videoSrc |-> Null, playing |-> FALSE,
                       currentTime |-> 0, host |-> last'.id]
         IN  /\ R \in DOMAIN roomState'
             /\ roomState'[R] = fresh
             /\ out'[1] = Emit("room-state", fresh, {last'.id})]_vars

\* A second room has just been created while the first one holds a video.
C10_Witness ==
    /\ last.op = "join"
    /\ last.log = "Creating new room"
    /\ roomState[getRoom(last.id)] =
         [videoSrc |-> Null, playing |-> FALSE, currentTime |-> 0, host |-> last.id]
    /\ \E r \in DOMAIN roomState : roomState[r].videoSrc = "a.mp4"

\* The connections whose current room is R.
MembersOf(ad, R) == {c \in Conns : R \in Range(ad.sids[c]) /\ R # c}

\* The step handles an event of the host of the room the sender is in.
FromHost ==
    /\ getRoom(last'.id) \in DOMAIN roomState
    /\ roomState[getRoom(last'.id)].host = last'.id

\* C11: join(C, R) on a room R that has a registry entry leaves R's state
\* unchanged and sends to C alone one room-state snapshot equal to that state.
C11_LateJoinerCatchUp ==
    [][(last'.op = "join" /\ last'.room \in DOMAIN roomState) =>
         LET R == last'.room IN
         /\ R \in DOMAIN roomState'
         /\ roomState'[R] = roomState[R]
         /\ out'[1] = Emit("room-state", roomState[R], {last'.id})
         /\ \A i \in 2..Len(out') : out'[i].ev # "room-state"]_vars

\* A connection has just joined a room that its host had set playing at 12 s,
\* and was sent that state.
C11_Witness ==
    /\ last.op = "join"
    /\ last.log = "Joining existing room"
    /\ out[1].data = [videoSrc |-> "a.mp4", playing |-> TRUE, currentTime |-> 12,
                      host |-> out[1].data.host]
    /\ out[1].data.host # last.id
    /\ out[1].to = {last.id}

\* C12: every join(C, R) delivers new-host(R.host) to every current member of
\* R, the joiner included, and to no connection that is not a member of R.
C12_JoinNewHostToRoom ==
    last.op = "join" =>
        LET R == last.room IN
        /\ Len(out) = 2
        /\ last.id \in MembersOf(adapter, R)
        /\ out[2] = Emit("new-host", roomState[R].host, MembersOf(adapter, R))
        /\ \A i \in 1..Len(out) : out[i].to \subseteq MembersOf(adapter, R)

\* A connection has just moved to another room: the member that stays in the
\* room it left is not sent the new-host event.
C12_Witness ==
    /\ last.op = "join"
    /\ last.left # Undefined
    /\ last.left # last.room
    /\ MembersOf(adapter, last.left) # {}
    /\ out[2].ev = "new-host"
    /\ out[2].to = {last.id}

\* C13: become-host from a member C of room R makes C the host of R and
\* delivers new-host(C) to every member of R, C included, whoever was host.
C13_BecomeHost ==
    [][(last'.op = "become-host" /\ getRoom(last'.id) # Undefined) =>
         LET R == getRoom(last'.id) IN
         /\ R \in DOMAIN roomState'
         /\ roomState'[R] = [videoSrc |-> roomState[R].videoSrc,
                             playing |-> roomState[R].playing,
                             currentTime |-> roomState[R].currentTime,
                             host |-> last'.id]
         /\ last'.id \in MembersOf(adapter, R)
         /\ out' = <<Emit("new-host", last'.id, MembersOf(adapter, R))>>]_vars

\* A member has just taken over a room in which another member is present.
C13_Witness ==
    /\ last.op = "become-host"
    /\ getRoom(last.id) \in DOMAIN roomState
    /\ roomState[getRoom(last.id)].host = last.id
    /\ Len(out) = 1
    /\ Cardinality(out[1].to) = 2

\* C14: set-video(v) from the host of R sets videoSrc = v, playing = false,
\* currentTime = 0, keeps the host, and delivers video-set(v) to every member
\* of R, the host included.
C14_SetVideo ==
    [][(last'.op = "set-video" /\ FromHost) =>
         LET c == last'.id
             R == getRoom(last'.id)
         IN  \A v \in Videos :
                SetVideo(c, v) =>
                  /\ roomState'[R] = [videoSrc |-> v, playing |-> FALSE,
                                      currentTime |-> 0, host |-> c]
                  /\ c \in MembersOf(adapter, R)
                  /\ out' = <<Emit("video-set", v, MembersOf(adapter, R))>>]_vars

\* The host has just set the video of a room with two members.
C14_Witness ==
    /\ last.op = "set-video"
    /\ last.log = "Host set video"
    /\ roomState[last.room] = [videoSrc |-> "a.mp4", playing |-> FALSE,
                               currentTime |-> 0, host |-> last.id]
    /\ Len(out) = 1
    /\ Cardinality(out[1].to) = 2

\* C15: play(t) from the host of R sets playing = true and currentTime = t,
\* keeps videoSrc and host, and delivers played(t) to every member of R but
\* the host.
C15_Play ==
    [][(last'.op = "play" /\ FromHost) =>
         LET c == last'.id
             R == getRoom(last'.id)
         IN  \A t \in Times :
                Play(c, t) =>
                  /\ roomState'[R] = [videoSrc |-> roomState[R].videoSrc,
                                      playing |-> TRUE,
                                      currentTime |-> t, host |-> c]
                  /\ out' = <<Emit("played", t, MembersOf(adapter, R) \ {c})>>]_vars

\* The host has just played a paused video at 12 s; the other member is sent
\* played(12).
C15_Witness ==
    /\ last.op = "play"
    /\ last.log = "Host PLAYED"
    /\ roomState[last.room] = [videoSrc |-> "a.mp4", playing |-> TRUE,
                               currentTime |-> 12, host |-> last.id]
    /\ Len(out) = 1
    /\ out[1].data = 12
    /\ out[1].to # {}
    /\ last.id \notin out[1].to

\* C16: pause(t) from the host of R sets playing = false and currentTime = t,
\* keeps videoSrc and host, and delivers paused(t) to every member of R but
\* the host.
C16_Pause ==
    [][(last'.op = "pause" /\ FromHost) =>
         LET c == last'.id
             R == getRoom(last'.id)
         IN  \A t \in Times :
                Pause(c, t) =>
                  /\ roomState'[R] = [videoSrc |-> roomState[R].videoSrc,
                                      playing |-> FALSE,
                                      currentTime |-> t, host |-> c]
                  /\ out' = <<Emit("paused", t, MembersOf(adapter, R) \ {c})>>]_vars

\* The host has just paused at 12 s; the other member is sent paused(12).
C16_Witness ==
    /\ last.op = "pause"
    /\ last.log = "Host PAUSED"
    /\ roomState[last.room] = [videoSrc |-> "a.mp4", playing |-> FALSE,
                               currentTime |-> 12, host |-> last.id]
    /\ Len(out) = 1
    /\ out[1].data = 12
    /\ out[1].to # {}
    /\ last.id \notin out[1].to

\* C17: seek(t) from the host of R sets currentTime = t only (playing, videoSrc
\* and host are kept), and delivers seeked(t) to every member of R but the
\* host.
C17_Seek ==
    [][(last'.op = "seek" /\ FromHost) =>
         LET c == last'.id
             R == getRoom(last'.id)
         IN  \A t \in Times :
                Seek(c, t) =>
                  /\ roomState'[R] = [videoSrc |-> roomState[R].videoSrc,
                                      playing |-> roomState[R].playing,
                                      currentTime |-> t, host |-> c]
                  /\ out' = <<Emit("seeked", t, MembersOf(adapter, R) \ {c})>>]_vars

\* The host has just sought to 12 s while playing; the room is still playing.
C17_Witness ==
    /\ last.op = "seek"
    /\ last.log = "Host SEEKED"
    /\ roomState[last.room] = [videoSrc |-> "a.mp4", playing |-> TRUE,
                               currentTime |-> 12, host |-> last.id]
    /\ Len(out) = 1
    /\ out[1].data = 12
    /\ out[1].to # {}
    /\ last.id \notin out[1].to

\* C18: when a member of R that is not R's host disconnects, it is dropped from
\* R's members, the registry is unchanged and nothing is emitted.
C18_NonHostDisconnect ==
    [][( /\ last'.op = "disconnect"
         /\ getRoom(last'.id) \in DOMAIN roomState
         /\ roomState[getRoom(last'.id)].host # last'.id )
       => /\ roomState' = roomState
          /\ out' = <<>>
          /\ \A r \in Rooms :
                Range(adapter'.rooms[r]) = Range(adapter.rooms[r]) \ {last'.id}]_vars

\* A follower has just disconnected from a room whose host is still in it.
C18_Witness ==
    /\ last.op = "disconnect"
    /\ last.left \in DOMAIN roomState
    /\ roomState[last.left].host # last.id
    /\ roomState[last.left].host \in MembersOf(adapter, last.left)
    /\ roomState[last.left].videoSrc = "a.mp4"
    /\ out = <<>>

NoRoomOps ==
    {"become-host", "set-video", "play", "pause", "seek", "chat-message", "disconnect"}

\* C19: become-host, set-video, play, pause, seek, chat-message or disconnect
\* from a connection that is in no room changes nothing in the registry, emits
\* nothing and raises no error.
C19_NoRoomNoOp ==
    [][( /\ last'.op \in NoRoomOps
         /\ \A r \in Rooms : last'.id \notin Range(adapter.rooms[r]) )
       => /\ roomState' = roomState
          /\ out' = <<>>
          /\ last'.log # "TypeError"
          /\ adapter'.rooms = adapter.rooms]_vars

\* A connection that never joined has just sent a command while a room with a
\* video exists.
C19_Witness ==
    /\ last.op \in NoRoomOps \ {"disconnect"}
    /\ last.id \in connected
    /\ \A r \in Rooms : last.id \notin Range(adapter.rooms[r])
    /\ \E r \in DOMAIN roomState :
          roomState[r].videoSrc = "a.mp4" /\ Range(adapter.rooms[r]) # {}
    /\ out = <<>>

\* C20: chat-message(text) from a member C of R, host or not, delivers one
\* chat-message event carrying C's id and the text to every member of R, C
\* included, and changes nothing in the registry.
C20_ChatMessage ==
    [][(last'.op = "chat-message" /\ getRoom(last'.id) # Undefined) =>
         LET c == last'.id
             R == getRoom(last'.id)
         IN  /\ roomState' = roomState
             /\ c \in MembersOf(adapter, R)
             /\ \A m \in Messages :
                   ChatMessage(c, m) =>
                     out' = <<Emit("chat-message", [id |-> c, message |-> m],
                                   MembersOf(adapter, R))>>]_vars

\* A member that is not the host has just sent a chat message to a room of two.
C20_Witness ==
    /\ last.op = "chat-message"
    /\ getRoom(last.id) \in DOMAIN roomState
    /\ roomState[getRoom(last.id)].host # last.id
    /\ Len(out) = 1
    /\ out[1].data = [id |-> last.id, message |-> "hi"]
    /\ out[1].to = {last.id, roomState[getRoom(last.id)].host}

\* C21: every event the server emits while it handles an event of connection
\* C goes only to connections whose current room is C's current room; a
\* connection in another room receives nothing.
C21_RoomIsolation ==
    \A i \in 1..Len(out) :
        /\ out[i].to \subseteq MembersOf(adapter, getRoomIn(adapter, last.id))
        /\ \A c \in out[i].to :
              RoomsOf(adapter, c) = RoomsOf(adapter, last.id)

\* The host of one room has just played while the other connection is in the
\* other room: the event goes to nobody.
C21_Witness ==
    /\ last.op = "play"
    /\ last.log = "Host PLAYED"
    /\ \E c \in connected :
          /\ RoomsOf(adapter, c) # {}
          /\ RoomsOf(adapter, c) # RoomsOf(adapter, last.id)
    /\ Len(out) = 1
    /\ out[1].to = {}

\* The guard of the handler of the step fails: a guarded command from a
\* connection that is not the host of a registered room it is in, become-host
\* or chat-message from a connection without a registered room, or a
\* disconnect whose handler finds the socket in no room.
GuardFailed ==
    LET c == last'.id
        inRoom == \E r \in DOMAIN roomState : c \in MembersOf(adapter, r)
        hosts == \E r \in DOMAIN roomState :
                    c \in MembersOf(adapter, r) /\ roomState[r].host = c
    IN  \/ last'.op \in GuardedOps /\ ~hosts
        \/ last'.op \in {"become-host", "chat-message"} /\ ~inRoom
        \/ last'.op = "disconnect" /\ RoomsOf(adapter', c) = {}

\* C22: no handler raises an error, whoever sends the event and whatever the
\* registry holds, and a handler whose guard fails changes nothing in the
\* registry and emits nothing.
C22_NoHandlerFails ==
    [][ /\ last'.log # "TypeError"
        /\ GuardFailed => (roomState' = roomState /\ out' = <<>>) ]_vars

\* A connection has just moved to a room without entry: the entry was created
\* before the handler read it, and both events were emitted.
C22_Witness ==
    /\ last.op = "join"
    /\ last.log = "Creating new room"
    /\ last.left \in DOMAIN roomState
    /\ Len(out) = 2
    /\ out[1].data = roomState[last.room]

\* C23: an upload is accepted exactly when its declared media type starts
\* with "video/" or its lower-cased extension is one of .mp4 .webm .ogg .wmv
\* .mkv; an accepted upload is answered with a path under /videos/, a
\* rejected one with a client error (status 4xx) that carries no path.
C23_UploadValidation ==
    http.file.present =>
        LET allowed ==
              \/ startsWith(http.file.mimetype, <<"v", "i", "d", "e", "o", "/">>)
              \/ toLowerCase(extname(http.file.originalname)) \in allowedExts
        IN  /\ allowed <=> http.saved # <<>>
            /\ allowed => startsWith(http.videoPath, <<"/", "v", "i", "d", "e", "o", "s", "/">>)
            /\ ~allowed => /\ http.status \in 400..499
                           /\ http.videoPath = <<>>

\* C24: when the channel of a member of room R closes, getRoom() in the
\* disconnect handler yields R, and when that member is R's host the handler
\* takes the failover or the teardown branch.
C24_DisconnectFindsRoom ==
    [][(last'.op = "disconnect" /\ getRoom(last'.id) # Undefined) =>
         LET c == last'.id
             R == getRoom(c)
         IN  /\ getRoomIn(DisconnectAdapter(adapter, c), c) = R
             /\ (R \in DOMAIN roomState /\ roomState[R].host = c)
                   => last'.log \in {"New host for room", "Room is empty"}]_vars

\* C26: become-host by a member B of room R makes B the host at once; from
\* then on a guarded command is accepted for R only from B, every other
\* member's is dropped, B's are accepted, and the host of R changes only by a
\* become-host of the new host (or when the host disconnects).
C26_AuthorityHandOver ==
    [][LET c == last'.id IN
       /\ last'.op = "become-host" =>
             \A R \in RoomsOf(adapter, c) :
                 R \in DOMAIN roomState' /\ roomState'[R].host = c
       /\ last'.op \in GuardedOps =>
             LET hosted == {R \in RoomsOf(adapter, c) \cap DOMAIN roomState :
                               roomState[R].host = c}
             IN  IF hosted = {}
                 THEN roomState' = roomState /\ out' = <<>>
                 ELSE /\ Len(out') = 1
                      /\ \A R \in DOMAIN roomState :
                            /\ roomState'[R].host = roomState[R].host
                            /\ R \notin hosted => roomState'[R] = roomState[R]
       /\ \A R \in DOMAIN roomState :
             \/ R \notin DOMAIN roomState' /\ last'.op = "disconnect"
             \/ /\ R \in DOMAIN roomState'
                /\ roomState'[R].host # roomState[R].host =>
                      \/ /\ last'.op = "become-host"
                         /\ roomState'[R].host = c
                         /\ R \in RoomsOf(adapter, c)
                      \/ /\ last'.op = "disconnect"
                         /\ roomState[R].host = c]_vars

\* A member has just taken the host role from another member, who is still in
\* the room and had set its video.
C26_Witness ==
    /\ last.op = "become-host"
    /\ last.was \notin {Undefined, last.id}
    /\ \E R \in RoomsOf(adapter, last.id) :
          /\ last.was \in MembersOf(adapter, R)
          /\ roomState[R].host = last.id
          /\ roomState[R].videoSrc = "a.mp4"

\* The step handles the event the step before it handled, from the same
\* connection and with the same argument (the argument of an accepted command
\* is the payload of the event it emitted).
SameEventAgain ==
    /\ last'.op = last.op
    /\ last'.id = last.id
    /\ \/ out = <<>>
       \/ last.op = "become-host" /\ BecomeHost(last.id)
       \/ last.op = "set-video" /\ SetVideo(last.id, out[1].data)
       \/ last.op = "play" /\ Play(last.id, out[1].data)
       \/ last.op = "pause" /\ Pause(last.id, out[1].data)
       \/ last.op = "seek" /\ Seek(last.id, out[1].data)

\* C27: handling the same set-video(v), play(t), pause(t), seek(t) or
\* become-host from the same connection a second time in a row leaves every
\* room as the first handling left it and only repeats the same broadcast.
C27_Idempotence ==
    [][(last'.op \in GuardedOps \cup {"become-host"} /\ SameEventAgain) =>
         (roomState' = roomState /\ out' = out)]_vars

\* The host of a room of two has just sent become-host again: the room is as
\* it was and new-host is broadcast once more.
C27_Witness ==
    /\ last.op = "become-host"
    /\ last.was = last.id
    /\ Len(out) = 1
    /\ Cardinality(out[1].to) = 2
    /\ \E R \in RoomsOf(adapter, last.id) :
          roomState[R] = [videoSrc |-> "a.mp4", playing |-> TRUE,
                          currentTime |-> 12, host |-> last.id]

\* C30: become-host, set-video, play, pause, seek or chat-message from
\* connection C leaves every room but C's current room as it is, a room C has
\* left and is still recorded as host of included, and adds or removes no
\* room.
C30_CrossRoomFrame ==
    [][last'.op \in (GuardedOps \cup {"become-host", "chat-message"}) =>
         /\ DOMAIN roomState' = DOMAIN roomState
         /\ \A R \in DOMAIN roomState :
               last'.id \notin MembersOf(adapter, R) => roomState'[R] = roomState[R]]_vars

\* A connection that left a room whose video it had set, and is still
\* recorded as its host, has just played in the room it is in now: the room it
\* left is as it was.
C30_Witness ==
    /\ last.op = "play"
    /\ last.log = "Host PLAYED"
    /\ roomState[last.room].currentTime = 12
    /\ \E R \in DOMAIN roomState :
          /\ R # last.room
          /\ last.id \notin MembersOf(adapter, R)
          /\ roomState[R] = [videoSrc |-> "a.mp4", playing |-> FALSE,
                              currentTime |-> 0, host |-> last.id]

\* C29: the client sends set-video, play, pause or seek only while its own
\* view says it is host: myId and hostId are both set and equal.
C29_ClientSideGuard ==
    \A i \in 1..Len(emitted) :
        emitted[i].ev \in GuardedOps => isHost(client)

\* The numbers of the commands whose notifications are queued for socket c,
\* oldest first.
Stamps(c) ==
    LET notes == SelectSeq(wire[c], LAMBDA e : e.n > 0) IN
    [i \in 1..Len(notes) |-> notes[i].n]

\* C25: the notifications of the accepted commands reach every socket in the
\* order in which the commands were handled, each once: the notifications
\* queued for a socket are those of later commands than the last one delivered
\* to it, oldest first, and none is queued twice; and the room is as the last
\* accepted command left it.
C25_OrderPreservation ==
    /\ \A c \in Conns :
        LET st == Stamps(c) IN
        /\ \A i \in 1..Len(st) : seen[c] < st[i] /\ st[i] <= accepted
        /\ \A i, j \in 1..Len(st) : i < j => st[i] < st[j]
    /\ Accepted(last) =>
          LET r == roomState[last.room]
              e == out[1]
          IN  /\ Len(out) = 1
              /\ e.ev = "video-set" =>
                    r.videoSrc = e.data /\ ~r.playing /\ r.currentTime = 0
              /\ e.ev = "played" => r.playing /\ r.currentTime = e.data
              /\ e.ev = "paused" => ~r.playing /\ r.currentTime = e.data
              /\ e.ev = "seeked" => r.currentTime = e.data

\* Two commands of the host are on their way to a follower, the first one
\* first.
C25_Witness ==
    \E c \in Conns :
        /\ Stamps(c) = <<1, 2>>
        /\ c \in MembersOf(adapter, 101)
        /\ roomState[101].host # c
        /\ wire[c][Len(wire[c])].ev \in {"played", "paused", "seeked"}

\* Command number n has just been accepted while connection c is a member of
\* the sender's room.
Owed(c, n) ==
    /\ Accepted(last)
    /\ accepted = n
    /\ c \in connected
    /\ c \in MembersOf(adapter, last.room)

Received(c, n) == seen[c] = n \/ c \notin connected

\* C28 as stated: every member of the room at the time an accepted play,
\* pause, seek or set-video is handled, if it stays connected, eventually
\* receives the notification of that command.
C28_EveryMemberNotified ==
    \A c \in Conns, n \in 1..MaxCommands : Owed(c, n) ~> Received(c, n)

\* C28, corrected: every member of the room other than the sender eventually
\* receives played, paused or seeked, and every member, the sender included,
\* eventually receives video-set, unless its channel closes.
C28_DeliveryLiveness ==
    \A c \in Conns, n \in 1..MaxCommands :
        (Owed(c, n) /\ (c # last.id \/ last.op = "set-video")) ~> Received(c, n)

\* A follower has received the notification of the second command of the host.
C28_Witness ==
    \E c \in connected :
        /\ seen[c] = 2
        /\ accepted = 2
        /\ Accepted(last)
        /\ last.id # c
        /\ last.op # "set-video"
        /\ c \in MembersOf(adapter, last.room)
        /\ wire[c] = <<>>

\* C31: become-host leaves the video, the playing flag and the position of
\* every room as they are and adds or removes no room; the only event it emits
\* is new-host: no video-set, played, paused or seeked.
C31_BecomeHostFrame ==
    [][last'.op = "become-host" =>
         /\ DOMAIN roomState' = DOMAIN roomState
         /\ \A R \in DOMAIN roomState :
               /\ roomState'[R].videoSrc = roomState[R].videoSrc
               /\ roomState'[R].playing = roomState[R].playing
               /\ roomState'[R].currentTime = roomState[R].currentTime
         /\ \A i \in 1..Len(out') : out'[i].ev = "new-host"]_vars

\* A member has just taken the host role of a room that is playing a video at
\* 12 s from the member that set it: the room still plays it there.
C31_Witness ==
    /\ last.op = "become-host"
    /\ last.was \notin {Undefined, last.id}
    /\ Len(out) = 1
    /\ \E R \in RoomsOf(adapter, last.id) :
          /\ last.was \in MembersOf(adapter, R)
          /\ roomState[R] = [videoSrc |-> "a.mp4", playing |-> TRUE,
                              currentTime |-> 12, host |-> last.id]

\* C32: when the host of room R disconnects and R has other members, R's new
\* host is the remaining member that joined R earliest: the first of R's
\* membership, in insertion order, once the old host is taken out.
C32_SuccessorIsEarliest ==
    [][HostLeft =>
         LET R == getRoom(last'.id)
             remaining == SeqRemove(adapter.rooms[R], last'.id)
         IN  /\ R \in DOMAIN roomState'
             /\ roomState'[R].host = remaining[1]]_vars

\* C33: join(C, R) by a connection C whose current room is R leaves R's entry
\* (videoSrc, playing, currentTime, host) and R's set of members as they are,
\* also when C is the only member or the host of R, and sends C one
\* room-state snapshot of that entry.
C33_RejoinPreserves ==
    [][(last'.op = "join" /\ getRoom(last'.id) = last'.room) =>
         LET R == last'.room IN
         /\ R \in DOMAIN roomState /\ R \in DOMAIN roomState'
         /\ roomState' = roomState
         /\ ToRoom(adapter', R) = ToRoom(adapter, R)
         /\ MembersOf(adapter', R) = MembersOf(adapter, R)
         /\ getRoomIn(adapter', last'.id) = R
         /\ out'[1] = Emit("room-state", roomState[R], {last'.id})]_vars

\* The only member of a room, its host, playing a video at 12 s, has just
\* joined that room again.
C33_Witness ==
    /\ last.op = "join"
    /\ last.left = last.room
    /\ ToRoom(adapter, last.room) = {last.id}
    /\ roomState[last.room] = [videoSrc |-> "a.mp4", playing |-> TRUE,
                                currentTime |-> 12, host |-> last.id]
    /\ out[1] = Emit("room-state", roomState[last.room], {last.id})

\* Every event the server has emitted to an open socket is delivered and every
\* event a client has sent is handled.
Quiescent == \A c \in connected : wire[c] = <<>> /\ up[c] = <<>>

\* C34: when nothing is in flight, every connected client that is a member of
\* a room R holds R's host as hostId and R's video as videoSrc.
C34_HostVideoConvergence ==
    Quiescent =>
        \A c \in connected :
            LET R == getRoom(c) IN
            R # Undefined =>
                /\ R \in DOMAIN roomState
                /\ views[c].hostId = roomState[R].host
                /\ views[c].videoSrc = roomState[R].videoSrc

\* Nothing is in flight in a room of two whose second member has taken the
\* host role and set a video: the first member's view says so.
C34_Witness ==
    /\ Quiescent
    /\ connected = {1, 2}
    /\ MembersOf(adapter, 101) = {1, 2}
    /\ roomState[101].host = 2
    /\ roomState[101].videoSrc = "a.mp4"
    /\ views[1].hostId = 2
    /\ views[1].videoSrc = "a.mp4"

\* C35: when nothing is in flight, every connected client that is a member of
\* a room R holds R's playing flag as playing.
C35_PlayingConvergence ==
    Quiescent =>
        \A c \in connected :
            LET R == getRoom(c) IN
            (R # Undefined /\ R \in DOMAIN roomState) =>
                views[c].playing = roomState[R].playing

\* C36: a client that has joined sets its player to the position of every
\* played, paused or seeked event delivered to it.
C36_FollowerAppliesPosition ==
    [][\A c \in Conns :
         ( /\ c \in connected /\ c \in connected'
           /\ wire[c] # <<>>
           /\ wire'[c] = Tail(wire[c])
           /\ Head(wire[c]).ev \in {"played", "paused", "seeked"}
           /\ views[c].joined )
         => views'[c].time = Head(wire[c]).data]_vars
====
